---------------------------- MODULE Spec2Model ----------------------------
(***************************************************************************)
(* The C API of the policy-based calculator (lib/src/calculator_c_api.cpp) *)
(* over the three calculation policies, and the direct calls of the demo   *)
(* driver (src/main.cpp).                                                  *)
(*                                                                         *)
(* Calculator.hpp and CalculationPolicies.hpp are not part of the sources  *)
(* at hand: the three policies and the generic host are written from       *)
(* sections 4.1-4.4 of the specification.                                  *)
(*                                                                         *)
(* A double is modelled as an exact rational <<n, d>> in lowest terms with *)
(* d > 0; <<n, 0>> stands for a non-finite double (inf, NaN).  Rounding is *)
(* not modelled.  Memory allocation is taken to succeed.                   *)
(***************************************************************************)
EXTENDS Integers, Sequences, FiniteSets, TLC

VARIABLES
    last_error,   \* handle object -> its std::string last_error
    live,         \* the handle objects created and not yet destroyed
    out,          \* the caller's double, which a non-null result pointer names
    last          \* the most recent operation: what was called and returned

vars == <<last_error, live, out, last>>

-----------------------------------------------------------------------------
(* Bounds and input domains *)

MaxLen == 2

\* the null handle
NULL == "NULL"

Abs(x) == IF x < 0 THEN -x ELSE x

RECURSIVE GCD(_, _)
GCD(a, b) == IF b = 0 THEN a ELSE GCD(b, a % b)

\* a rational in lowest terms, the sign in the numerator
Rat(n, d) ==
    IF d = 0 THEN <<(IF n > 0 THEN 1 ELSE IF n < 0 THEN -1 ELSE 0), 0>>
    ELSE LET g == GCD(Abs(n), Abs(d))
             s == IF d < 0 THEN -1 ELSE 1
         IN  <<(s * n) \div g, (s * d) \div g>>

RAdd(a, b) == Rat(a[1] * b[2] + b[1] * a[2], a[2] * b[2])
RSub(a, b) == Rat(a[1] * b[2] - b[1] * a[2], a[2] * b[2])
RMul(a, b) == Rat(a[1] * b[1], a[2] * b[2])
RDiv(a, b) == Rat(a[1] * b[2], a[2] * b[1])
RLe(a, b)  == a[2] # 0 /\ b[2] # 0 /\ a[1] * b[2] <= b[1] * a[2]
RLt(a, b)  == a[2] # 0 /\ b[2] # 0 /\ a[1] * b[2] < b[1] * a[2]
FromInt(i) == <<i, 1>>

\* std::pow(base, k) for an integer exponent
RECURSIVE RPow(_, _)
RPow(base, k) ==
    IF k = 0 THEN FromInt(1)
    ELSE IF k < 0 THEN RDiv(FromInt(1), RPow(base, -k))
    ELSE RMul(base, RPow(base, k - 1))

\* the content of a double nobody has written yet
Garbage == <<0, 0>>

\* discount and interest rates: -1.5, -1, -0.5, 0.5
Rates == {<<-3, 2>>, <<-1, 1>>, <<-1, 2>>, <<1, 2>>}

\* the cash flow of period t: 100, 200, 300, ... (main.cpp's first example)
CashFlowAt(t) == FromInt(100 * t)

\* the vectors main.cpp hands to the core, the empty one included
Vectors == {[t \in 1..k |-> CashFlowAt(t)] : k \in 0..MaxLen}

\* the arrays a C caller can point to (an array has at least one element)
Arrays == Vectors \ {<<>>}

\* a const double*: null, or the address of an array
NullArray == [null |-> TRUE, data |-> <<>>]
CashFlowPtrs == {NullArray} \cup {[null |-> FALSE, data |-> a] : a \in Arrays}

\* the counts a caller may pass with a pointer: never past the array's end
Counts(p) == IF p.null THEN {0, 1} ELSE 0..Len(p.data)

Principals == {FromInt(-1), FromInt(0), FromInt(1000)}
Periods == {-1, 0, 1, 2}

\* nominal rates: -2, -1, -0.5, 0.5
NominalRates == {<<-2, 1>>, <<-1, 1>>, <<-1, 2>>, <<1, 2>>}

\* the smaller domains of the specification that runs the three calculators
\* side by side
SomeRates == {<<-1, 1>>, <<1, 2>>}
SomePrincipals == {FromInt(-1), FromInt(1000)}
SomePeriods == {0, 2}
SomeNominalRates == {<<-2, 1>>, <<1, 2>>}

\* what the caller's double holds when the call is made: nothing written yet
\* (double result;) or zero (double result = 0.0;)
OutBefore == {Garbage, FromInt(0)}

\* a double*: null, or the address of the caller's double, holding old
NullResult == [null |-> TRUE, old |-> Garbage]
ResultPtrs == {NullResult} \cup {[null |-> FALSE, old |-> v] : v \in OutBefore}

PV == "pv"
FV == "fv"
IR == "ir"
Handles == {PV, FV, IR}


-----------------------------------------------------------------------------
(* The core: calculation policies and the generic host (specification 4.1-4.4) *)

MsgEmptyCashFlows == "cash flows cannot be empty"
MsgDiscountRate == "discount rate must be greater than -1"
MsgNegativePrincipal == "principal cannot be negative"
MsgInterestRate == "interest rate must be greater than -1"
MsgPeriods == "periods must be positive"
MsgCompoundingPeriods == "compounding periods must be positive"
MsgNominalRate == "nominal rate must be greater than -1 * compounding periods"

CoreMessages ==
    {MsgEmptyCashFlows, MsgDiscountRate, MsgNegativePrincipal, MsgInterestRate,
     MsgPeriods, MsgCompoundingPeriods, MsgNominalRate}

\* a call of the core returns a value or throws
Returned(v) == [ok |-> TRUE, value |-> v, kind |-> "none", what |-> ""]
InvalidInput(msg) ==
    [ok |-> FALSE, value |-> Garbage, kind |-> "InvalidInput", what |-> msg]

\* sum of cash_flows[t] / (1 + discount_rate)^t for t = from..N, left to right
RECURSIVE PVAccumulate(_, _, _, _)
PVAccumulate(discount_rate, cash_flows, t, acc) ==
    IF t > Len(cash_flows) THEN acc
    ELSE PVAccumulate(discount_rate, cash_flows, t + 1,
             RAdd(acc, RDiv(cash_flows[t],
                            RPow(RAdd(FromInt(1), discount_rate), t))))

PresentValuePolicy(discount_rate, cash_flows) ==
    IF cash_flows = <<>> THEN InvalidInput(MsgEmptyCashFlows)
    ELSE IF RLe(discount_rate, FromInt(-1)) THEN InvalidInput(MsgDiscountRate)
    ELSE Returned(PVAccumulate(discount_rate, cash_flows, 1, FromInt(0)))

FutureValuePolicy(principal, interest_rate, periods) ==
    IF RLt(principal, FromInt(0)) THEN InvalidInput(MsgNegativePrincipal)
    ELSE IF RLe(interest_rate, FromInt(-1)) THEN InvalidInput(MsgInterestRate)
    ELSE IF periods <= 0 THEN InvalidInput(MsgPeriods)
    ELSE Returned(RMul(principal, RPow(RAdd(FromInt(1), interest_rate), periods)))

\* The bound on nominal_rate is the precondition section 4.3 states; section 9
\* of the specification reports that the original validates only the
\* periods.  C1-C4, C7, C9 and C10 hold with and without this second check.
InterestRateConversionPolicy(nominal_rate, compounding_periods) ==
    IF compounding_periods <= 0 THEN InvalidInput(MsgCompoundingPeriods)
    ELSE IF RLe(nominal_rate, FromInt(-1 * compounding_periods))
         THEN InvalidInput(MsgNominalRate)
    ELSE Returned(RSub(RPow(RAdd(FromInt(1),
                                 RDiv(nominal_rate, FromInt(compounding_periods))),
                            compounding_periods),
                       FromInt(1)))

\* Calculator<Policy>::calculate forwards its arguments to the policy
CalculatorPV(discount_rate, cash_flows) ==
    PresentValuePolicy(discount_rate, cash_flows)
CalculatorFV(principal, interest_rate, periods) ==
    FutureValuePolicy(principal, interest_rate, periods)
CalculatorIR(nominal_rate, compounding_periods) ==
    InterestRateConversionPolicy(nominal_rate, compounding_periods)

-----------------------------------------------------------------------------
(* The C API: lib/src/calculator_c_api.cpp *)

MsgPvInvalidArguments == "Invalid arguments: null pointer or empty cash flows"
MsgInvalidArguments == "Invalid arguments: null pointer"
MsgUnknownError == "Unknown error occurred"
MsgInvalidHandle == "Invalid calculator handle"

\* the handle a caller of kind k's functions can pass: null, or the live object
HandleArgs(k) == {NULL} \cup ({k} \cap live)

\* faulty variant: the count is not looked at
pv_invalid_arguments_no_count(calc, cash_flows, n_cash_flows, result) ==
    calc = NULL \/ cash_flows.null \/ result.null

\* if (!calc || !cash_flows || !result || n_cash_flows == 0)
pv_invalid_arguments(calc, cash_flows, n_cash_flows, result) ==
    calc = NULL \/ cash_flows.null \/ result.null \/ n_cash_flows = 0

\* if (!calc || !result), of the future-value and the interest-rate functions
invalid_arguments(calc, result) ==
    calc = NULL \/ result.null

\* faulty variant: the last element is left out
cf_vec_short(cash_flows, n_cash_flows) ==
    SubSeq(cash_flows.data, 1, n_cash_flows - 1)

\* std::vector<double> cf_vec(cash_flows, cash_flows + n_cash_flows)
cf_vec(cash_flows, n_cash_flows) ==
    SubSeq(cash_flows.data, 1, n_cash_flows)

\* faulty variant: the handlers return 0
try_catch_returns_zero(r, old_error) ==
    IF r.ok THEN [ret |-> 0, last_error |-> ""]
    ELSE IF r.kind = "InvalidInput" THEN [ret |-> 0, last_error |-> r.what]
    ELSE [ret |-> 0, last_error |-> MsgUnknownError]

\* faulty variant: last_error.clear() is missing
try_catch_keeps_message(r, old_error) ==
    IF r.ok THEN [ret |-> 0, last_error |-> old_error]
    ELSE IF r.kind = "InvalidInput" THEN [ret |-> -1, last_error |-> r.what]
    ELSE [ret |-> -1, last_error |-> MsgUnknownError]

\* faulty variant: catch (...) comes first, e.what() is never read
try_catch_unknown(r, old_error) ==
    IF r.ok THEN [ret |-> 0, last_error |-> ""]
    ELSE [ret |-> -1, last_error |-> MsgUnknownError]

\* faulty variant: a handle that holds a message refuses to calculate
try_catch_sticky(r, old_error) ==
    IF old_error # "" THEN [ret |-> -1, last_error |-> old_error]
    ELSE IF r.ok THEN [ret |-> 0, last_error |-> ""]
    ELSE IF r.kind = "InvalidInput" THEN [ret |-> -1, last_error |-> r.what]
    ELSE [ret |-> -1, last_error |-> MsgUnknownError]

\* the try block's tail and its handlers: the status returned and the message
\* left in last_error, for what the core did
try_catch(r, old_error) ==
    IF r.ok THEN [ret |-> 0, last_error |-> ""]
    ELSE IF r.kind = "InvalidInput" THEN [ret |-> -1, last_error |-> r.what]
    ELSE [ret |-> -1, last_error |-> MsgUnknownError]

\* faulty variant: the double is zeroed when the core throws
assign_result_zeroes(r, old) ==
    IF r.ok THEN r.value ELSE FromInt(0)

\* *result = calc->calc.calculate(...): the assignment happens only when the
\* call returns; old is what the caller's double held
assign_result(r, old) ==
    IF r.ok THEN r.value ELSE old

\* what a calculate function does once the core has been called
Invoked(op, calc, args, r) ==
    /\ out' = assign_result(r, args.result.old)
    /\ last_error' = [last_error EXCEPT ![calc] = try_catch(r, @).last_error]
    /\ last' = [op |-> op, calc |-> calc, args |-> args,
                ret |-> try_catch(r, last_error[calc]).ret, invoked |-> TRUE,
                pre_error |-> last_error[calc]]
    /\ UNCHANGED live

\* what a calculate function does when it rejects its arguments
Rejected(op, calc, args, msg) ==
    /\ last_error' = IF calc # NULL THEN [last_error EXCEPT ![calc] = msg]
                     ELSE last_error
    /\ last' = [op |-> op, calc |-> calc, args |-> args, ret |-> -1,
                invoked |-> FALSE,
                pre_error |-> IF calc # NULL THEN last_error[calc] ELSE ""]
    /\ out' = args.result.old
    /\ UNCHANGED live

Create(op, k) ==
    /\ k \notin live
    /\ live' = live \cup {k}
    /\ last_error' = [last_error EXCEPT ![k] = ""]
    /\ last' = [op |-> op, calc |-> k]
    /\ UNCHANGED out

\* delete calc: nothing for a null pointer
Destroy(op, calc) ==
    /\ live' = live \ {calc}
    /\ last_error' = IF calc # NULL THEN [last_error EXCEPT ![calc] = ""]
                     ELSE last_error
    /\ last' = [op |-> op, calc |-> calc]
    /\ UNCHANGED out

\* faulty variant: the null handle is answered with an empty string
get_error_unchecked(calc) ==
    IF calc = NULL THEN "" ELSE last_error[calc]

\* if (!calc) return "Invalid calculator handle"; return calc->last_error.c_str()
get_error(calc) ==
    IF calc = NULL THEN MsgInvalidHandle ELSE last_error[calc]

GetError(op, calc) ==
    /\ last' = [op |-> op, calc |-> calc, ret |-> get_error(calc)]
    /\ UNCHANGED <<last_error, live, out>>

pv_calculator_create == Create("pv_calculator_create", PV)

pv_calculator_calculate(calc, discount_rate, cash_flows, n_cash_flows, result) ==
    LET args == [discount_rate |-> discount_rate, cash_flows |-> cash_flows,
                 n_cash_flows |-> n_cash_flows, result |-> result]
    IN  IF pv_invalid_arguments(calc, cash_flows, n_cash_flows, result)
        THEN Rejected("pv_calculator_calculate", calc, args, MsgPvInvalidArguments)
        ELSE Invoked("pv_calculator_calculate", calc, args,
                     CalculatorPV(discount_rate, cf_vec(cash_flows, n_cash_flows)))

pv_calculator_get_error(calc) == GetError("pv_calculator_get_error", calc)

pv_calculator_destroy(calc) == Destroy("pv_calculator_destroy", calc)

fv_calculator_create == Create("fv_calculator_create", FV)

\* faulty variant: principal and interest_rate change places
fv_forward_swapped(principal, interest_rate, periods) ==
    CalculatorFV(interest_rate, principal, periods)

\* calc->calc.calculate(principal, interest_rate, periods)
fv_forward(principal, interest_rate, periods) ==
    CalculatorFV(principal, interest_rate, periods)

fv_calculator_calculate(calc, principal, interest_rate, periods, result) ==
    LET args == [principal |-> principal, interest_rate |-> interest_rate,
                 periods |-> periods, result |-> result]
    IN  IF invalid_arguments(calc, result)
        THEN Rejected("fv_calculator_calculate", calc, args, MsgInvalidArguments)
        ELSE Invoked("fv_calculator_calculate", calc, args,
                     fv_forward(principal, interest_rate, periods))

fv_calculator_get_error(calc) == GetError("fv_calculator_get_error", calc)

fv_calculator_destroy(calc) == Destroy("fv_calculator_destroy", calc)

ir_calculator_create == Create("ir_calculator_create", IR)

\* calc->calc.calculate(nominal_rate, compounding_periods)
ir_forward(nominal_rate, compounding_periods) ==
    CalculatorIR(nominal_rate, compounding_periods)

ir_calculator_calculate(calc, nominal_rate, compounding_periods, result) ==
    LET args == [nominal_rate |-> nominal_rate,
                 compounding_periods |-> compounding_periods, result |-> result]
    IN  IF invalid_arguments(calc, result)
        THEN Rejected("ir_calculator_calculate", calc, args, MsgInvalidArguments)
        ELSE Invoked("ir_calculator_calculate", calc, args,
                     ir_forward(nominal_rate, compounding_periods))

ir_calculator_get_error(calc) == GetError("ir_calculator_get_error", calc)

ir_calculator_destroy(calc) == Destroy("ir_calculator_destroy", calc)

-----------------------------------------------------------------------------
(* The demo driver's direct calls of the core: src/main.cpp *)

\* try { ... calc.calculate(...) ... } catch (const std::exception& e): the
\* value is printed, or e.what() is
MainCall(op, args, r) ==
    /\ last' = [op |-> op, args |-> args, threw |-> ~r.ok, value |-> r.value,
                kind |-> r.kind, what |-> r.what]
    /\ UNCHANGED <<last_error, live, out>>

main_pv_calculate(discount_rate, cash_flows) ==
    MainCall("main_pv_calculate",
             [discount_rate |-> discount_rate, cash_flows |-> cash_flows],
             CalculatorPV(discount_rate, cash_flows))

main_fv_calculate(principal, interest_rate, periods) ==
    MainCall("main_fv_calculate",
             [principal |-> principal, interest_rate |-> interest_rate,
              periods |-> periods],
             CalculatorFV(principal, interest_rate, periods))

main_ir_calculate(nominal_rate, compounding_periods) ==
    MainCall("main_ir_calculate",
             [nominal_rate |-> nominal_rate,
              compounding_periods |-> compounding_periods],
             CalculatorIR(nominal_rate, compounding_periods))

-----------------------------------------------------------------------------

Init ==
    /\ last_error = [h \in Handles |-> ""]
    /\ live = {}
    /\ out = Garbage
    /\ last = [op |-> "none"]

PvCalls(rates) ==
    \E calc \in HandleArgs(PV), discount_rate \in rates,
       cash_flows \in CashFlowPtrs, result \in ResultPtrs :
       \E n_cash_flows \in Counts(cash_flows) :
          pv_calculator_calculate(calc, discount_rate, cash_flows,
                                  n_cash_flows, result)

FvCalls(principals, rates, periods_) ==
    \E calc \in HandleArgs(FV), principal \in principals,
       interest_rate \in rates, periods \in periods_, result \in ResultPtrs :
       fv_calculator_calculate(calc, principal, interest_rate, periods, result)

IrCalls(rates, periods_) ==
    \E calc \in HandleArgs(IR), nominal_rate \in rates,
       compounding_periods \in periods_, result \in ResultPtrs :
       ir_calculator_calculate(calc, nominal_rate, compounding_periods, result)

PvGetError == \E calc \in HandleArgs(PV) : pv_calculator_get_error(calc)
PvDestroy == \E calc \in HandleArgs(PV) : pv_calculator_destroy(calc)
FvGetError == \E calc \in HandleArgs(FV) : fv_calculator_get_error(calc)
FvDestroy == \E calc \in HandleArgs(FV) : fv_calculator_destroy(calc)
IrGetError == \E calc \in HandleArgs(IR) : ir_calculator_get_error(calc)
IrDestroy == \E calc \in HandleArgs(IR) : ir_calculator_destroy(calc)

MainPv ==
    \E discount_rate \in Rates, cash_flows \in Vectors :
       main_pv_calculate(discount_rate, cash_flows)

MainFv ==
    \E principal \in Principals, interest_rate \in Rates, periods \in Periods :
       main_fv_calculate(principal, interest_rate, periods)

MainIr ==
    \E nominal_rate \in NominalRates, compounding_periods \in Periods :
       main_ir_calculate(nominal_rate, compounding_periods)

\* the three calculators of the C API side by side
Next ==
    \/ pv_calculator_create
    \/ PvCalls(SomeRates)
    \/ PvGetError
    \/ PvDestroy
    \/ fv_calculator_create
    \/ FvCalls(SomePrincipals, SomeRates, SomePeriods)
    \/ FvGetError
    \/ FvDestroy
    \/ ir_calculator_create
    \/ IrCalls(SomeNominalRates, SomePeriods)
    \/ IrGetError
    \/ IrDestroy

Spec == Init /\ [][Next]_vars

\* one calculator, through the C API and directly as main.cpp calls it
NextPV ==
    \/ pv_calculator_create
    \/ PvCalls(Rates)
    \/ PvGetError
    \/ PvDestroy
    \/ MainPv

SpecPV == Init /\ [][NextPV]_vars

NextFV ==
    \/ fv_calculator_create
    \/ FvCalls(Principals, Rates, Periods)
    \/ FvGetError
    \/ FvDestroy
    \/ MainFv

SpecFV == Init /\ [][NextFV]_vars

NextIR ==
    \/ ir_calculator_create
    \/ IrCalls(NominalRates, Periods)
    \/ IrGetError
    \/ IrDestroy
    \/ MainIr

SpecIR == Init /\ [][NextIR]_vars

-----------------------------------------------------------------------------
(* What the properties below speak of *)

PvCalculate == "pv_calculator_calculate"
FvCalculate == "fv_calculator_calculate"
IrCalculate == "ir_calculator_calculate"
CalculateOps == {PvCalculate, FvCalculate, IrCalculate}
GetErrorOps ==
    {"pv_calculator_get_error", "fv_calculator_get_error", "ir_calculator_get_error"}

\* the most recent operation was a calculate call, on a live handle
LastCalculate == last.op \in CalculateOps
LastOnLive == LastCalculate /\ last.calc # NULL

\* a null pointer or a zero-length array among the arguments of the last call
LastHasNullOrEmpty ==
    \/ last.args.result.null
    \/ last.op = PvCalculate /\ (last.args.cash_flows.null \/ last.args.n_cash_flows = 0)

\* what the core does with the values a call is given
CoreOf(op, args) ==
    CASE op = PvCalculate ->
           PresentValuePolicy(args.discount_rate,
               [t \in 1..args.n_cash_flows |-> args.cash_flows.data[t]])
      [] op = FvCalculate ->
           FutureValuePolicy(args.principal, args.interest_rate, args.periods)
      [] op = IrCalculate ->
           InterestRateConversionPolicy(args.nominal_rate, args.compounding_periods)

LastCore == CoreOf(last.op, last.args)

\* the message a calculate function sets when it rejects its arguments
DedicatedMessage(op) ==
    IF op = PvCalculate THEN MsgPvInvalidArguments ELSE MsgInvalidArguments

\* the preconditions of sections 4.1-4.3 hold of the last call's values
LastPreconditions ==
    CASE last.op = PvCalculate ->
           /\ last.args.n_cash_flows > 0
           /\ RLt(FromInt(-1), last.args.discount_rate)
      [] last.op = FvCalculate ->
           /\ RLe(FromInt(0), last.args.principal)
           /\ RLt(FromInt(-1), last.args.interest_rate)
           /\ last.args.periods > 0
      [] last.op = IrCalculate ->
           /\ last.args.compounding_periods > 0
           /\ RLt(FromInt(-1 * last.args.compounding_periods), last.args.nominal_rate)

-----------------------------------------------------------------------------
(* C1: a calculate call on a live handle returns 0 exactly when the core was
   called and returned; then the caller's double holds the core's value and
   the handle's message is empty; otherwise it returns -1 and the handle's
   message is not empty. *)
C1_StatusAndMessage ==
    LastOnLive =>
        /\ last.ret \in {0, -1}
        /\ last.ret = 0 <=> (~LastHasNullOrEmpty /\ LastCore.ok)
        /\ last.ret = 0 => (out = LastCore.value /\ last_error[last.calc] = "")
        /\ last.ret # 0 => last_error[last.calc] # ""

\* a successful call on a handle that held a message
C1_Witness ==
    /\ LastOnLive
    /\ last.ret = 0
    /\ last.pre_error # ""
    /\ last_error[last.calc] = ""
    /\ out = LastCore.value

(* C2: whatever calls came before on a live handle, failed ones included, a
   calculate call with valid arguments returns 0, leaves in the caller's
   double the value the policy gives for these arguments (what a handle just
   created yields), and leaves the handle's message empty. *)
C2_UsableAfterFailure ==
    (LastOnLive /\ ~LastHasNullOrEmpty /\ LastPreconditions) =>
        /\ last.ret = 0
        /\ out = LastCore.value
        /\ last_error[last.calc] = ""

\* a valid present-value call right after the core refused the discount rate
C2_Witness ==
    /\ last.op = PvCalculate
    /\ last.calc # NULL
    /\ ~LastHasNullOrEmpty
    /\ LastPreconditions
    /\ last.pre_error = MsgDiscountRate
    /\ last.ret = 0

(* C3: a calculate call with a null cash-flow array, a null result pointer or
   a zero-length array returns -1 without calling the core, whatever the
   other arguments are; on a live handle the message is then the function's
   dedicated one, which is none of the core's messages. *)
C3_BoundaryRejection ==
    (LastCalculate /\ LastHasNullOrEmpty) =>
        /\ last.ret = -1
        /\ ~last.invoked
        /\ last.calc # NULL =>
              /\ last_error[last.calc] = DedicatedMessage(last.op)
              /\ last_error[last.calc] \notin CoreMessages

\* a zero-length array together with a discount rate the core would refuse
C3_Witness ==
    /\ last.op = PvCalculate
    /\ last.calc # NULL
    /\ ~last.args.cash_flows.null
    /\ ~last.args.result.null
    /\ last.args.n_cash_flows = 0
    /\ RLe(last.args.discount_rate, FromInt(-1))
    /\ last.ret = -1
    /\ last_error[PV] = MsgPvInvalidArguments

(* C4: get_error of a null handle returns the fixed message "Invalid
   calculator handle"; get_error of a live handle returns that handle's
   message, which is never the fixed one; a calculate call with a null handle
   returns non-zero and changes no handle's message and no handle's life. *)
C4_NullHandle ==
    /\ [](/\ last.op \in GetErrorOps =>
                IF last.calc = NULL THEN last.ret = MsgInvalidHandle
                ELSE last.ret = last_error[last.calc] /\ last.ret # MsgInvalidHandle
          /\ \A h \in Handles : last_error[h] # MsgInvalidHandle
          /\ (LastCalculate /\ last.calc = NULL) => last.ret # 0)
    /\ [][(last'.op \in CalculateOps /\ last'.calc = NULL) =>
             (last_error' = last_error /\ live' = live)]_vars

\* get_error of a null handle while a live handle holds a message
C4_Witness ==
    /\ last.op \in GetErrorOps
    /\ last.calc = NULL
    /\ last.ret = MsgInvalidHandle
    /\ \E h \in live : last_error[h] # ""

(* C5: the present-value calculation fails with InvalidInput for every
   discount rate when the cash flows are empty, and for every non-empty
   sequence when discount_rate <= -1, -1 included; for a non-empty sequence
   and discount_rate > -1 it does not fail.  Called directly, and through
   the C API, where the failure is the status -1 with the core's message. *)
C5_PresentValuePreconditions ==
    /\ last.op = "main_pv_calculate" =>
          IF last.args.cash_flows = <<>>
          THEN last.threw /\ last.kind = "InvalidInput" /\ last.what = MsgEmptyCashFlows
          ELSE IF RLe(last.args.discount_rate, FromInt(-1))
          THEN last.threw /\ last.kind = "InvalidInput" /\ last.what = MsgDiscountRate
          ELSE ~last.threw
    /\ (last.op = PvCalculate /\ last.calc # NULL /\ ~LastHasNullOrEmpty) =>
          IF RLe(last.args.discount_rate, FromInt(-1))
          THEN last.ret = -1 /\ last_error[PV] = MsgDiscountRate
          ELSE last.ret = 0 /\ last_error[PV] = ""

\* the rate -1 itself, refused through the C API
C5_Witness ==
    /\ last.op = PvCalculate
    /\ last.calc # NULL
    /\ ~LastHasNullOrEmpty
    /\ last.args.discount_rate = FromInt(-1)
    /\ last.ret = -1
    /\ last_error[PV] = MsgDiscountRate

(* C6: the future-value calculation fails with InvalidInput whenever
   principal < 0, whenever interest_rate <= -1 and whenever periods <= 0;
   with principal >= 0, interest_rate > -1 and periods > 0 it does not fail.
   Called directly, and through the C API. *)
C6_FutureValuePreconditions ==
    LET bad(a) == \/ RLt(a.principal, FromInt(0))
                  \/ RLe(a.interest_rate, FromInt(-1))
                  \/ a.periods <= 0
    IN  /\ last.op = "main_fv_calculate" =>
              IF bad(last.args)
              THEN last.threw /\ last.kind = "InvalidInput"
              ELSE ~last.threw
        /\ (last.op = FvCalculate /\ last.calc # NULL /\ ~LastHasNullOrEmpty) =>
              IF bad(last.args)
              THEN last.ret = -1 /\ last_error[FV] \in
                       {MsgNegativePrincipal, MsgInterestRate, MsgPeriods}
              ELSE last.ret = 0 /\ last_error[FV] = ""

\* a principal of zero is accepted
C6_Witness ==
    /\ last.op = FvCalculate
    /\ last.calc # NULL
    /\ ~LastHasNullOrEmpty
    /\ last.args.principal = FromInt(0)
    /\ last.ret = 0
    /\ out = FromInt(0)

(* C7: the interest-rate conversion fails with InvalidInput and the message
   "compounding periods must be positive" for every nominal rate whenever
   compounding_periods <= 0, for 0 and for a negative count.  Called
   directly, and through the C API. *)
C7_CompoundingPeriods ==
    /\ (last.op = "main_ir_calculate" /\ last.args.compounding_periods <= 0) =>
          last.threw /\ last.kind = "InvalidInput" /\ last.what = MsgCompoundingPeriods
    /\ (/\ last.op = IrCalculate
        /\ last.calc # NULL
        /\ ~LastHasNullOrEmpty
        /\ last.args.compounding_periods <= 0) =>
          last.ret = -1 /\ last_error[IR] = MsgCompoundingPeriods

\* a negative count with a positive nominal rate, through the C API
C7_Witness ==
    /\ last.op = IrCalculate
    /\ last.calc # NULL
    /\ ~LastHasNullOrEmpty
    /\ last.args.compounding_periods = -1
    /\ RLt(FromInt(0), last.args.nominal_rate)
    /\ last.ret = -1
    /\ last_error[IR] = MsgCompoundingPeriods

\* the status that the values of a call determine, whatever the handle went
\* through before
StatusOf(op, args) ==
    IF args.result.null THEN -1
    ELSE IF op = PvCalculate /\ (args.cash_flows.null \/ args.n_cash_flows = 0) THEN -1
    ELSE IF CoreOf(op, args).ok THEN 0
    ELSE -1

(* C9: the status a calculate call returns on a live handle, and the value it
   leaves in the caller's double when it succeeds, are a function of the
   call's arguments alone: they do not depend on the calls made before, nor
   on the message the handle holds, nor on what the double held. *)
C9_PureFunctionOfInputs ==
    LastOnLive =>
        /\ last.ret = StatusOf(last.op, last.args)
        /\ last.ret = 0 => out = LastCore.value

\* the same handle answered a valid call while holding a message and with the
\* caller's double zeroed beforehand
C9_Witness ==
    /\ LastOnLive
    /\ last.pre_error \in CoreMessages
    /\ last.args.result.old = FromInt(0)
    /\ last.ret = 0
    /\ out = LastCore.value
    /\ out # FromInt(0)

(* C10: a calculate call that returns non-zero leaves the caller's double as
   it was, and changes nothing but the message of the handle it was called
   on: the other handles' messages and every handle's life stay as they
   were. *)
C10_FailureFrame ==
    [][(last'.op \in CalculateOps /\ last'.ret # 0) =>
          /\ out' = last'.args.result.old
          /\ \A h \in Handles \ {last'.calc} : last_error'[h] = last_error[h]
          /\ live' = live]_vars

\* a present-value call failed in the core, the caller's double still zero,
\* while the two other handles hold their own messages
C10_Witness ==
    /\ last.op = PvCalculate
    /\ last.calc # NULL
    /\ last.invoked
    /\ last.ret = -1
    /\ ~last.args.result.null
    /\ last.args.result.old = FromInt(0)
    /\ out = FromInt(0)
    /\ last_error[FV] = MsgNegativePrincipal
    /\ last_error[IR] = MsgInvalidArguments

=============================================================================
